---- MODULE Spec2Model ----
(***************************************************************************)
(* KIAUH instance manager: discovery of service instances from the unit    *)
(* directory (find_instances), the single-instance and bulk lifecycle      *)
(* operations of InstanceManager, and the rollback workflow of git_utils.  *)
(*                                                                         *)
(* Python strings are modelled as sequences of ASCII code points, so that  *)
(* the regular expression, Path.stem, slicing, str.isdigit, int(), the     *)
(* zero-padded format and the string comparison used by sorted() are       *)
(* computed character by character.                                        *)
(***************************************************************************)
EXTENDS Integers, Sequences, FiniteSets, TLC

\* ------------------------------------------------------------------------
\* Bounds of the model
\* ------------------------------------------------------------------------
\* largest number of files of the unit directory (discovery specification)
MaxFiles == 3
\* largest number of unit files of the directory (lifecycle specification)
MaxUnits == 3
\* largest rollback depth the user enters
MaxAmount == 2

\* ------------------------------------------------------------------------
\* Strings
\* ------------------------------------------------------------------------
Ord ==
    ("\n" :> 10) @@ ("-" :> 45) @@ ("/" :> 47) @@ ("d" :> 100) @@ ("y" :> 121) @@ ("." :> 46) @@ ("_" :> 95) @@
    ("0" :> 48) @@ ("1" :> 49) @@ ("2" :> 50) @@ ("9" :> 57) @@
    ("C" :> 67) @@ ("K" :> 75) @@ ("U" :> 85) @@ ("M" :> 77) @@ ("N" :> 78) @@ ("S" :> 83) @@
    ("a" :> 97) @@ ("b" :> 98) @@ ("c" :> 99) @@ ("e" :> 101) @@
    ("i" :> 105) @@ ("k" :> 107) @@ ("l" :> 108) @@ ("m" :> 109) @@
    ("n" :> 110) @@ ("o" :> 111) @@ ("r" :> 114) @@ ("s" :> 115) @@
    ("t" :> 116) @@ ("u" :> 117) @@ ("v" :> 118) @@ ("x" :> 120)

\* the Python string whose characters are the one-character strings of t
Str(t) == [i \in 1..Len(t) |-> Ord[t[i]]]

\* Python's None, distinct from every string
None == <<-1>>

IsDigit(c) == c \in 48..57
IsUpper(c) == c \in 65..90
IsLower(c) == c \in 97..122
IsAlnum(c) == IsDigit(c) \/ IsUpper(c) \/ IsLower(c)

\* s[n:]
SliceFrom(s, n) == SubSeq(s, n + 1, Len(s))
\* s[:n]
SliceTo(s, n) == SubSeq(s, 1, n)

\* a in b (substring containment)
Contains(a, b) ==
    \E i \in 0..(Len(b) - Len(a)) : SubSeq(b, i + 1, i + Len(a)) = a

\* a < b, the comparison of two Python strings (by code point)
StrLess(a, b) ==
    \E i \in 1..Len(b) :
        /\ i <= Len(a) + 1
        /\ SliceTo(a, i - 1) = SliceTo(b, i - 1)
        /\ (i = Len(a) + 1 \/ a[i] < b[i])

\* str.isdigit on ASCII text
isdigit(s) == Len(s) > 0 /\ \A i \in 1..Len(s) : IsDigit(s[i])

\* int(s) of a string of decimal digits
RECURSIVE int(_)
int(s) ==
    IF s = <<>> THEN 0
    ELSE 10 * int(SliceTo(s, Len(s) - 1)) + (s[Len(s)] - 48)

\* str(n) of a natural number
RECURSIVE str(_)
str(n) ==
    IF n < 10 THEN <<48 + n>>
    ELSE str(n \div 10) \o <<48 + (n % 10)>>

\* f"{n:04}": the decimal digits of n, padded with zeros to a width of at
\* least four
RECURSIVE ZeroPad(_, _)
ZeroPad(s, width) == IF Len(s) >= width THEN s ELSE ZeroPad(<<48>> \o s, width)

Format04(n) == ZeroPad(str(n), 4)

DotService == Str(<<".", "s", "e", "r", "v", "i", "c", "e">>)
Service == Str(<<"s", "e", "r", "v", "i", "c", "e">>)

\* utils.common.convert_camelcase_to_kebabcase: a hyphen before every
\* upper-case letter but the first character, then lower case
RECURSIVE convert_camelcase_to_kebabcase(_)
convert_camelcase_to_kebabcase(s) ==
    IF s = <<>> THEN <<>>
    ELSE LET n == Len(s)
             c == s[n]
             lc == IF IsUpper(c) THEN c + 32 ELSE c
         IN  convert_camelcase_to_kebabcase(SliceTo(s, n - 1))
                 \o (IF IsUpper(c) /\ n > 1 THEN <<45, lc>> ELSE <<lc>>)

\* ------------------------------------------------------------------------
\* Discovery: InstanceManager.find_instances
\* ------------------------------------------------------------------------

\* "." of a regular expression: any character but a newline
RegexDot(c) == c # 10

\* the "." that precedes "service" in the pattern of find_instances
PatternDot(c) == RegexDot(c)

\* "$" of a regular expression: the end of the text, or just before a
\* newline that ends the text
RegexEnd(rest) == rest = <<>> \/ rest = <<10>>

\* re.compile(f"^{name}(-[0-9a-zA-Z]+)?.service$").search(fn); k is the
\* length of the text the optional group consumes
PatternSearch(name, fn) ==
    LET n == Len(name) IN
    /\ Len(fn) >= n
    /\ SliceTo(fn, n) = name
    /\ \E k \in 0..(Len(fn) - n) :
        /\ \/ k = 0
           \/ /\ k >= 2
              /\ fn[n + 1] = 45
              /\ \A j \in (n + 2)..(n + k) : IsAlnum(fn[j])
        /\ LET rest == SliceFrom(fn, n + k) IN
            /\ Len(rest) >= 8
            /\ PatternDot(rest[1])
            /\ SubSeq(rest, 2, 8) = Service
            /\ RegexEnd(SliceFrom(rest, 8))

\* an exclusion of the names that are blacklisted as a whole
NotExcluded_exact(fn, excluded) == fn \notin excluded

\* not any(s in service.name for s in excluded)
NotExcluded(fn, excluded) == ~ \E s \in excluded : Contains(s, fn)

\* the largest index of a dot in fn, 0 when there is none (str.rfind + 1)
RfindDot(fn) ==
    LET dots == {i \in 1..Len(fn) : fn[i] = 46}
    IN  IF dots = {} THEN 0 ELSE CHOOSE i \in dots : \A j \in dots : j <= i

\* pathlib's Path.stem: the name without its last suffix; a leading or a
\* trailing dot starts no suffix
Stem(fn) ==
    LET i == RfindDot(fn)
    IN  IF 1 < i /\ i < Len(fn) THEN SliceTo(fn, i - 1) ELSE fn

\* a suffix that keeps the hyphen
get_instance_suffix_keeps_hyphen(name, fn) == SliceFrom(Stem(fn), Len(name))

\* InstanceManager._get_instance_suffix
get_instance_suffix(name, fn) ==
    LET suffix == SliceFrom(Stem(fn), Len(name))
    IN  IF suffix # <<>> THEN SliceFrom(suffix, 1) ELSE <<>>

\* self.instance_type(suffix=...): an instance; built_from is the unit file
\* discovery built it from, None for an instance the caller constructs
Instance(suffix, built_from) == <<suffix, built_from>>

\* the suffix attribute of an instance
suffix_of(inst) == inst[1]

\* the unit file discovery built an instance from
built_from(inst) == inst[2]

\* a sort key that is the suffix itself
sort_instance_list_raw(suffix) == suffix

\* InstanceManager._sort_instance_list: the sort key of a suffix
sort_instance_list(suffix) ==
    IF suffix = None THEN None
    ELSE IF isdigit(suffix) THEN Format04(int(suffix))
    ELSE suffix

\* sorted(list, key=...): a stable sort; x is put behind every element
\* whose key is not greater than its own
RECURSIVE InsertByKey(_, _)
InsertByKey(x, t) ==
    IF t = <<>> THEN <<x>>
    ELSE IF StrLess(sort_instance_list(suffix_of(x)), sort_instance_list(suffix_of(Head(t))))
         THEN <<x>> \o t
         ELSE <<Head(t)>> \o InsertByKey(x, Tail(t))

RECURSIVE sorted(_)
sorted(l) ==
    IF l = <<>> THEN <<>>
    ELSE InsertByKey(l[Len(l)], sorted(SliceTo(l, Len(l) - 1)))

\* the files of the listing that a predicate keeps, in the listing's order
RECURSIVE Filter(_, _, _)
Filter(l, name, excluded) ==
    IF l = <<>> THEN <<>>
    ELSE (IF PatternSearch(name, Head(l)) /\ NotExcluded(Head(l), excluded)
          THEN <<Head(l)>> ELSE <<>>) \o Filter(Tail(l), name, excluded)

\* service_list of find_instances, for the order in which iterdir lists
\* the directory
service_list(typeName, excluded, iterdir) ==
    Filter(iterdir, convert_camelcase_to_kebabcase(typeName), excluded)

\* the instance find_instances builds from a unit file
instance_of(typeName, fn) ==
    Instance(get_instance_suffix(convert_camelcase_to_kebabcase(typeName), fn), fn)

\* InstanceManager.find_instances
find_instances(typeName, excluded, iterdir) ==
    LET services == service_list(typeName, excluded, iterdir)
        instance_list == [i \in 1..Len(services) |-> instance_of(typeName, services[i])]
    IN  sorted(instance_list)

\* the orders in which a directory can be listed
Listings(d) ==
    {l \in [1..Cardinality(d) -> d] : \A i, j \in 1..Cardinality(d) : i # j => l[i] # l[j]}

\* ------------------------------------------------------------------------
\* The instance and the collaborators of the manager
\* ------------------------------------------------------------------------

\* BaseInstance.get_service_file_name: kebab(type), then "-" and the suffix
\* when the suffix is not empty
get_service_file_name(typeName, inst) ==
    convert_camelcase_to_kebabcase(typeName)
        \o (IF suffix_of(inst) # <<>> THEN <<45>> \o suffix_of(inst) ELSE <<>>)

\* core.constants.SYSTEMD: the unit directory
SYSTEMD ==
    Str(<<"/", "e", "t", "c", "/", "s", "y", "s", "t", "e", "m", "d", "/",
          "s", "y", "s", "t", "e", "m">>)

\* BaseInstance.get_service_file_path: the unit file in the unit directory
get_service_file_path(typeName, inst) ==
    SYSTEMD \o <<47>> \o get_service_file_name(typeName, inst) \o DotService

\* f"{value}" of a string or None
Fmt(value) == IF value = None THEN Str(<<"N", "o", "n", "e">>) ELSE value

\* InstanceManager.instance_service_full
instance_service_full_of(service) == Fmt(service) \o DotService

\* one invocation of an external collaborator and whether it succeeded
Call(unit, action, ok) == [unit |-> unit, action |-> action, ok |-> ok]

NoExc == "none"

\* InstanceManager.create_instance; outcome is what the instance's create does
create_instance(typeName, current, outcome) ==
    IF current # None
    THEN [calls |-> <<Call(get_service_file_name(typeName, current), "create", outcome = NoExc)>>,
          exc |-> outcome]
    ELSE [calls |-> <<>>, exc |-> "ValueError"]

\* InstanceManager.delete_instance
delete_instance(typeName, current, outcome) ==
    IF current # None
    THEN [calls |-> <<Call(get_service_file_name(typeName, current), "delete", outcome = NoExc)>>,
          exc |-> outcome]
    ELSE [calls |-> <<>>, exc |-> "ValueError"]

\* InstanceManager.enable_instance; ok is whether cmd_sysctl_service succeeds
enable_instance(service, ok) ==
    [calls |-> <<Call(instance_service_full_of(service), "enable", ok)>>, exc |-> NoExc]

\* InstanceManager.disable_instance
disable_instance(service, ok) ==
    [calls |-> <<Call(instance_service_full_of(service), "disable", ok)>>, exc |-> NoExc]

\* a start_instance that raises the failure again as stop_instance does
start_instance_raises(service, ok) ==
    [calls |-> <<Call(instance_service_full_of(service), "start", ok)>>,
     exc |-> IF ok THEN NoExc ELSE "CalledProcessError"]

\* InstanceManager.start_instance
start_instance(service, ok) ==
    [calls |-> <<Call(instance_service_full_of(service), "start", ok)>>, exc |-> NoExc]

\* InstanceManager.restart_instance
restart_instance(service, ok) ==
    [calls |-> <<Call(instance_service_full_of(service), "restart", ok)>>, exc |-> NoExc]

\* a stop_instance that swallows the failure as start_instance does
stop_instance_swallows(service, ok) ==
    [calls |-> <<Call(instance_service_full_of(service), "stop", ok)>>, exc |-> NoExc]

\* InstanceManager.stop_instance
stop_instance(service, ok) ==
    [calls |-> <<Call(instance_service_full_of(service), "stop", ok)>>,
     exc |-> IF ok THEN NoExc ELSE "CalledProcessError"]

\* a reset whose failure is not caught
git_reset_raises(n, ok) ==
    [calls |-> <<Call(str(n), "git reset --hard HEAD~", ok)>>,
     exc |-> IF ok THEN NoExc ELSE "CalledProcessError"]

\* the git reset of rollback_repository and its except clause
git_reset(n, ok) ==
    [calls |-> <<Call(str(n), "git reset --hard HEAD~", ok)>>, exc |-> NoExc]

\* a rollback that catches the failure of stop_all_instance and goes on
after_raise_caught(o) == IF o = "rollback_repository" THEN "reset" ELSE "idle"

\* where an exception raised in the loop of a bulk operation leads: neither
\* the bulk operation nor rollback_repository catches it, the operation ends
after_raise(o) == "idle"

\* the single-instance operation a bulk operation repeats
single(kind, service, ok) ==
    CASE kind = "start" -> start_instance(service, ok)
      [] kind = "restart" -> restart_instance(service, ok)
      [] kind = "stop" -> stop_instance(service, ok)

\* the cached value after the current_instance setter ran: that of the new
\* instance, and the old one when the new value is None
setter_cache(value, old, derived) == IF value # None THEN derived ELSE old

\* ------------------------------------------------------------------------
\* State
\* ------------------------------------------------------------------------
VARIABLES
    instance_type,          \* InstanceManager._instance_type: the type's name
    excluded,               \* the blacklist() of the type
    dir,                    \* the names of the files of the unit directory
    current_instance,       \* InstanceManager._current_instance
    instance_suffix,        \* InstanceManager._instance_suffix
    instance_service,       \* InstanceManager._instance_service
    instance_service_path,  \* InstanceManager._instance_service_path
    pc,                     \* where the running operation stands
    op,                     \* the operation the caller invoked last
    kind,                   \* the single operation the running loop repeats
    insts,                  \* the list the last find_instances returned
    todo,                   \* the instances the running loop has yet to visit
    calls,                  \* the collaborator invocations of the operation op
    result,                 \* how op ended: returned, or the exception raised
    amount,                 \* rollback_repository: the depth the user entered
    confirm                 \* rollback_repository: whether the user confirmed

vars ==
    <<instance_type, excluded, dir, current_instance, instance_suffix,
      instance_service, instance_service_path, pc, op, kind, insts, todo,
      calls, result, amount, confirm>>

env == <<instance_type, excluded, dir>>
manager == <<current_instance, instance_suffix, instance_service, instance_service_path>>

\* InstanceManager.instance_service_full
instance_service_full == instance_service_full_of(instance_service)

\* ------------------------------------------------------------------------
\* The inputs the model draws from
\* ------------------------------------------------------------------------
Kl == Str(<<"K", "l">>)
KlS == Str(<<"K", "l", "S">>)

\* the unit file name of a type's base name and a suffix
UnitName(base, suffix) ==
    base \o (IF suffix # <<>> THEN <<45>> \o suffix ELSE <<>>) \o DotService

Sfx1 == Str(<<"1">>)
SfxB == Str(<<"b">>)
SfxMcu == Str(<<"m", "c", "u">>)

\* the unit files of the lifecycle specification
Units ==
    { UnitName(Str(<<"k", "l">>), s) : s \in {<<>>, Sfx1, SfxB, SfxMcu} }

\* the blacklists a type declares
Blacklists == { {}, {SfxMcu} }

\* the instances a caller constructs and selects
Selectable == { Instance(s, None) : s \in {<<>>, Sfx1} }

\* __init__ of InstanceManager
Constructed ==
    /\ current_instance = None
    /\ instance_suffix = None
    /\ instance_service = None
    /\ instance_service_path = None

Idle ==
    /\ pc = "idle"
    /\ op = "none"
    /\ kind = "none"
    /\ insts = <<>>
    /\ todo = <<>>
    /\ calls = <<>>
    /\ result = "none"
    /\ amount = 0
    /\ confirm = FALSE

Init ==
    /\ instance_type = Kl
    /\ excluded \in Blacklists
    /\ dir \in {d \in SUBSET Units : Cardinality(d) <= MaxUnits}
    /\ Constructed
    /\ Idle

\* ------------------------------------------------------------------------
\* Operations
\* ------------------------------------------------------------------------

\* the current_instance setter
SetCurrent(value) ==
    /\ current_instance' = value
    /\ instance_suffix' =
           setter_cache(value, instance_suffix,
                        IF value # None THEN suffix_of(value) ELSE None)
    /\ instance_service' =
           setter_cache(value, instance_service,
                        IF value # None THEN get_service_file_name(instance_type, value) ELSE None)
    /\ instance_service_path' =
           setter_cache(value, instance_service_path,
                        IF value # None THEN get_service_file_path(instance_type, value) ELSE None)

\* no loop is running
NoLoop ==
    /\ kind' = "none"
    /\ insts' = <<>>
    /\ todo' = <<>>

\* the caller assigns current_instance
AssignCurrent ==
    /\ pc = "idle"
    /\ \E value \in Selectable \cup {None} : SetCurrent(value)
    /\ op' = "current_instance"
    /\ calls' = <<>>
    /\ result' = "returned"
    /\ NoLoop
    /\ amount' = 0
    /\ confirm' = FALSE
    /\ UNCHANGED <<env, pc>>

\* a single-instance operation ran and ended with r
Single(name, r) ==
    /\ op' = name
    /\ calls' = r.calls
    /\ result' = IF r.exc = NoExc THEN "returned" ELSE r.exc
    /\ NoLoop
    /\ amount' = 0
    /\ confirm' = FALSE
    /\ UNCHANGED <<env, manager, pc>>

Outcomes == {NoExc, "OSError", "CalledProcessError"}

CreateInstance ==
    /\ pc = "idle"
    /\ \E o \in Outcomes :
           Single("create_instance", create_instance(instance_type, current_instance, o))

DeleteInstance ==
    /\ pc = "idle"
    /\ \E o \in Outcomes :
           Single("delete_instance", delete_instance(instance_type, current_instance, o))

EnableInstance ==
    /\ pc = "idle"
    /\ \E ok \in BOOLEAN : Single("enable_instance", enable_instance(instance_service, ok))

DisableInstance ==
    /\ pc = "idle"
    /\ \E ok \in BOOLEAN : Single("disable_instance", disable_instance(instance_service, ok))

StartInstance ==
    /\ pc = "idle"
    /\ \E ok \in BOOLEAN : Single("start_instance", start_instance(instance_service, ok))

RestartInstance ==
    /\ pc = "idle"
    /\ \E ok \in BOOLEAN : Single("restart_instance", restart_instance(instance_service, ok))

StopInstance ==
    /\ pc = "idle"
    /\ \E ok \in BOOLEAN : Single("stop_instance", stop_instance(instance_service, ok))

\* the caller reads the instances property (find_instances)
FindInstances ==
    /\ pc = "idle"
    /\ \E l \in Listings(dir) : insts' = find_instances(instance_type, excluded, l)
    /\ op' = "find_instances"
    /\ calls' = <<>>
    /\ result' = "returned"
    /\ kind' = "none"
    /\ todo' = <<>>
    /\ amount' = 0
    /\ confirm' = FALSE
    /\ UNCHANGED <<env, manager, pc>>

\* "for instance in self.instances" of a bulk operation: the directory is
\* listed and the loop starts
EnterLoop(k) ==
    /\ pc' = "loop"
    /\ kind' = k
    /\ \E l \in Listings(dir) :
        /\ insts' = find_instances(instance_type, excluded, l)
        /\ todo' = insts'

Bulk(name, k) ==
    /\ pc = "idle"
    /\ op' = name
    /\ calls' = <<>>
    /\ result' = "running"
    /\ EnterLoop(k)
    /\ amount' = 0
    /\ confirm' = FALSE
    /\ UNCHANGED <<env, manager>>

StartAllInstance == Bulk("start_all_instance", "start")

RestartAllInstance == Bulk("restart_all_instance", "restart")

StopAllInstance == Bulk("stop_all_instance", "stop")

\* one iteration of the loop of a bulk operation: the instance becomes the
\* current one and the single operation runs; an exception it raises leaves
\* the loop and the operation that runs it
LoopStep ==
    /\ pc = "loop"
    /\ todo # <<>>
    /\ SetCurrent(Head(todo))
    /\ todo' = Tail(todo)
    /\ \E ok \in BOOLEAN :
        LET r == single(kind, instance_service', ok) IN
        /\ calls' = calls \o r.calls
        /\ IF r.exc = NoExc
           THEN UNCHANGED <<pc, result>>
           ELSE pc' = after_raise(op) /\ result' = r.exc
    /\ UNCHANGED <<env, op, kind, insts, amount, confirm>>

\* the loop of a bulk operation is exhausted: the operation returns, and
\* rollback_repository goes on to the reset after its stop_all_instance
LoopExit ==
    /\ pc = "loop"
    /\ todo = <<>>
    /\ IF op = "rollback_repository" /\ kind = "stop"
       THEN pc' = "reset" /\ UNCHANGED result
       ELSE pc' = "idle" /\ result' = "returned"
    /\ UNCHANGED <<env, manager, op, kind, insts, todo, calls, amount, confirm>>

\* rollback_repository up to im.stop_all_instance(): the user enters the
\* depth and confirms or not; im is a new manager
RollbackRepository ==
    /\ pc = "idle"
    /\ op' = "rollback_repository"
    /\ calls' = <<>>
    /\ current_instance' = None
    /\ instance_suffix' = None
    /\ instance_service' = None
    /\ instance_service_path' = None
    /\ \E n \in 1..MaxAmount : amount' = n
    /\ \E c \in BOOLEAN :
        /\ confirm' = c
        /\ IF c
           THEN result' = "running" /\ EnterLoop("stop")
           ELSE /\ result' = "returned"
                /\ NoLoop
                /\ UNCHANGED pc
    /\ UNCHANGED env

\* rollback_repository after stop_all_instance returned: the reset, then
\* im.start_all_instance()
RollbackReset ==
    /\ pc = "reset"
    /\ \E ok \in BOOLEAN :
        LET r == git_reset(amount, ok) IN
        /\ calls' = calls \o r.calls
        /\ IF r.exc = NoExc
           THEN result' = result /\ EnterLoop("start")
           ELSE /\ pc' = "idle"
                /\ result' = r.exc
                /\ UNCHANGED <<kind, insts, todo>>
    /\ UNCHANGED <<env, manager, op, amount, confirm>>

Next ==
    \/ AssignCurrent
    \/ CreateInstance
    \/ DeleteInstance
    \/ EnableInstance
    \/ DisableInstance
    \/ StartInstance
    \/ RestartInstance
    \/ StopInstance
    \/ FindInstances
    \/ StartAllInstance
    \/ RestartAllInstance
    \/ StopAllInstance
    \/ LoopStep
    \/ LoopExit
    \/ RollbackRepository
    \/ RollbackReset

Spec == Init /\ [][Next]_vars

\* ------------------------------------------------------------------------
\* Discovery over arbitrary directories
\* ------------------------------------------------------------------------
kl == Str(<<"k", "l">>)

\* suffixes of letters and digits
Alnums ==
    { Str(<<"1">>), Str(<<"1", "0">>), Str(<<"0", "1">>),
      Str(<<"9", "9", "9", "9">>), Str(<<"1", "0", "0", "0", "0">>),
      Str(<<"0", "0", "0", "0", "a">>), Str(<<"M", "C", "U">>),
      Str(<<"m", "c", "u">>), Str(<<"s">>) }

\* names that are not those of a unit of the type "Kl"
Others ==
    { Str(<<"k", "l", "x", "s", "e", "r", "v", "i", "c", "e">>),
      Str(<<"k", "l", "-", "1", "x", "s", "e", "r", "v", "i", "c", "e">>),
      Str(<<"k", "l", "s", ".", "s", "e", "r", "v", "i", "c", "e">>),
      Str(<<"k", "l", "-", ".", "s", "e", "r", "v", "i", "c", "e">>),
      Str(<<"k", "l", ".", "s", "e", "r", "v", "i", "c", "e", "\n">>),
      Str(<<"k", "l", "-", "s", "-", "1", ".", "s", "e", "r", "v", "i", "c", "e">>) }

Files == { UnitName(kl, s) : s \in Alnums \cup {<<>>} } \cup Others

\* the directory of the suffixes "", "2", "10", "beta", "1", in this order
ExampleListing ==
    << UnitName(kl, <<>>), UnitName(kl, Str(<<"2">>)), UnitName(kl, Str(<<"1", "0">>)),
       UnitName(kl, Str(<<"b", "e", "t", "a">>)), UnitName(kl, Str(<<"1">>)) >>

ExampleDir == { ExampleListing[i] : i \in 1..Len(ExampleListing) }

InitFind ==
    /\ instance_type \in {Kl, KlS}
    /\ excluded \in Blacklists
    /\ dir \in {d \in SUBSET Files : Cardinality(d) <= MaxFiles} \cup {ExampleDir}
    /\ Constructed
    /\ Idle

NextFind == FindInstances

SpecFind == InitFind /\ [][NextFind]_vars

\* ------------------------------------------------------------------------
\* Properties
\* ------------------------------------------------------------------------

\* the unit a service command for an instance has to name
UnitOf(inst) == get_service_file_name(instance_type, inst) \o DotService

IsStop(c) == c.action = "stop"
IsStart(c) == c.action = "start"
IsReset(c) == c.action = "git reset --hard HEAD~"

\* the first n calls are the calls of the action a for the first n
\* instances of insts, in order
VisitsInOrder(n, a) ==
    /\ n <= Len(insts)
    /\ n <= Len(calls)
    /\ \A j \in 1..n : calls[j].action = a /\ calls[j].unit = UnitOf(insts[j])

\* C1: while stop_all_instance runs (on its own or in the rollback) the
\* stops issued so far are those of the first instances of the sorted
\* sequence, one each and in order; only the last of them can have failed,
\* and when it has, the operation has raised CalledProcessError and no
\* stop of a later instance is issued.
C1_StopAllAbortsOnFirstFailure ==
    (kind = "stop" /\ op \in {"stop_all_instance", "rollback_repository"}) =>
        LET n == Len(calls) IN
        /\ VisitsInOrder(n, "stop")
        /\ \A j \in 1..(n - 1) : calls[j].ok
        /\ (n > 0 /\ ~calls[n].ok) <=> result = "CalledProcessError"
        /\ result = "CalledProcessError" => pc = "idle"
        /\ pc = "loop" => todo = SliceFrom(insts, n)

C1_Witness ==
    /\ op = "stop_all_instance"
    /\ Len(insts) = 3
    /\ Len(calls) = 2
    /\ calls[1].ok
    /\ ~calls[2].ok
    /\ result = "CalledProcessError"

\* C2: in the rollback, once a stop has failed the run has raised, and its
\* calls hold no reset and no start.
C2_RollbackAbortsOnStopFailure ==
    (op = "rollback_repository" /\ \E j \in 1..Len(calls) : IsStop(calls[j]) /\ ~calls[j].ok) =>
        /\ result = "CalledProcessError"
        /\ pc = "idle"
        /\ \A j \in 1..Len(calls) : IsStop(calls[j])

C2_Witness ==
    /\ op = "rollback_repository"
    /\ Len(insts) >= 2
    /\ Len(calls) = 1
    /\ ~calls[1].ok
    /\ pc = "idle"

\* C3: in a confirmed rollback whose stops all succeeded, the calls are the
\* stops, then one reset, then the starts of the discovered instances in
\* order; a reset that failed raises nothing, and when the rollback has
\* returned, the reset was attempted and a start was issued for every
\* instance.
C3_ResetThenStartAll ==
    (op = "rollback_repository" /\ confirm) =>
        LET resets == {j \in 1..Len(calls) : IsReset(calls[j])} IN
        /\ Cardinality(resets) <= 1
        /\ result = "returned" => resets # {}
        /\ pc = "reset" => resets = {}
        /\ \A r \in resets :
            /\ \A j \in 1..(r - 1) : IsStop(calls[j]) /\ calls[j].ok
            /\ calls[r].unit = str(amount)
            /\ result \in {"running", "returned"}
            /\ kind = "start"
            /\ Len(calls) - r <= Len(insts)
            /\ \A j \in (r + 1)..Len(calls) :
                   IsStart(calls[j]) /\ calls[j].unit = UnitOf(insts[j - r])
            /\ result = "returned" => Len(calls) - r = Len(insts)
            /\ result = "returned" <=> pc = "idle"

C3_Witness ==
    /\ op = "rollback_repository"
    /\ result = "returned"
    /\ Len(insts) >= 2
    /\ \E r \in 1..Len(calls) : IsReset(calls[r]) /\ ~calls[r].ok /\ r > 1
    /\ IsStart(calls[Len(calls)])

\* C4: start_all_instance and restart_all_instance issue their command for
\* the instances of the sorted sequence, one each and in order, whatever
\* commands fail; they raise nothing and have returned exactly when every
\* instance was visited and the loop was left.
C4_StartAllVisitsEveryInstance ==
    (op \in {"start_all_instance", "restart_all_instance"}) =>
        /\ kind = (IF op = "start_all_instance" THEN "start" ELSE "restart")
        /\ VisitsInOrder(Len(calls), kind)
        /\ result \in {"running", "returned"}
        /\ result = "returned" <=> pc = "idle"
        /\ result = "returned" => Len(calls) = Len(insts)
        /\ pc = "loop" => todo = SliceFrom(insts, Len(calls))

C4_Witness ==
    /\ op = "start_all_instance"
    /\ result = "returned"
    /\ Len(insts) = 3
    /\ calls[1].ok
    /\ ~calls[2].ok
    /\ calls[3].unit = UnitOf(insts[3])

\* C5: a single-instance operation on a manager without a current instance
\* ends with the invalid-state error and invokes no collaborator.
C5_NoCurrentInstanceIsInvalidState ==
    (/\ op \in {"create_instance", "delete_instance", "enable_instance",
                "disable_instance", "start_instance", "restart_instance"}
     /\ current_instance = None) =>
        /\ result = "ValueError"
        /\ calls = <<>>

\* C10: the cached fields are those of the selected instance, and are not
\* those of an instance selected before when none is selected; the service
\* commands of a bulk operation name the unit of the instance processed.
C10_DerivedFieldsFollowSelection ==
    /\ IF current_instance = None
       THEN /\ instance_suffix = None
            /\ instance_service = None
            /\ instance_service_path = None
       ELSE /\ instance_suffix = suffix_of(current_instance)
            /\ instance_service = get_service_file_name(instance_type, current_instance)
            /\ instance_service_full = UnitOf(current_instance)
            /\ instance_service_path = get_service_file_path(instance_type, current_instance)
    /\ (pc = "loop" /\ calls # <<>>) =>
           calls[Len(calls)].unit = UnitOf(current_instance)

\* ---- discovery ----

\* the base name of the units of the managed type
BaseName == convert_camelcase_to_kebabcase(instance_type)

\* the suffixes of the discovered instances, in order
Suffixes == [i \in 1..Len(insts) |-> suffix_of(insts[i])]

\* the indices of the discovered instances built from the file f
BuiltFrom(f) == {i \in 1..Len(insts) : built_from(insts[i]) = f}

\* s occurs in f as a run of consecutive characters
HasSubstring(f, s) ==
    \E i \in 1..(Len(f) + 1) : \E j \in (i - 1)..Len(f) : SubSeq(f, i, j) = s

Blacklisted(f) == \E s \in excluded : HasSubstring(f, s)

\* f is base, optionally a hyphen and one or more letters or digits, and
\* the text ".service"
WellFormedName(base, f) ==
    LET n == Len(base)
        m == Len(f) - Len(DotService)
    IN  /\ m >= n
        /\ SubSeq(f, 1, n) = base
        /\ SubSeq(f, m + 1, Len(f)) = DotService
        /\ \/ m = n
           \/ /\ m >= n + 2
              /\ f[n + 1] = 45
              /\ \A j \in (n + 2)..m : IsAlnum(f[j])

IsNumeric(t) == t # <<>> /\ \A i \in 1..Len(t) : t[i] \in 48..57

RECURSIVE Pow10(_)
Pow10(n) == IF n = 0 THEN 1 ELSE 10 * Pow10(n - 1)

RECURSIVE ValueOf(_)
ValueOf(t) ==
    IF t = <<>> THEN 0 ELSE (Head(t) - 48) * Pow10(Len(t) - 1) + ValueOf(Tail(t))

\* 0 for the default instance, 1 for a numbered one, 2 for a named one
ClassOf(t) == IF t = <<>> THEN 0 ELSE IF IsNumeric(t) THEN 1 ELSE 2

RECURSIVE LexLeq(_, _)
LexLeq(a, b) ==
    IF a = <<>> THEN TRUE
    ELSE IF b = <<>> THEN FALSE
    ELSE IF Head(a) # Head(b) THEN Head(a) < Head(b)
    ELSE LexLeq(Tail(a), Tail(b))

\* default first, then the numbered instances in ascending numeric order,
\* then the named instances in lexical order
OrderedAsSpecified ==
    \A i, j \in 1..Len(insts) :
        i < j =>
            LET a == suffix_of(insts[i])
                b == suffix_of(insts[j])
            IN  /\ ClassOf(a) <= ClassOf(b)
                /\ (ClassOf(a) = 1 /\ ClassOf(b) = 1) => ValueOf(a) <= ValueOf(b)
                /\ (ClassOf(a) = 2 /\ ClassOf(b) = 2) => LexLeq(a, b)

\* every discovered instance comes from a unit file of the type with an
\* empty suffix or a suffix of letters and digits
FromUnitFiles ==
    \A i \in 1..Len(insts) : WellFormedName(BaseName, built_from(insts[i]))

ExampleSorted ==
    << <<>>, Str(<<"1">>), Str(<<"2">>), Str(<<"1", "0">>), Str(<<"b", "e", "t", "a">>) >>

ExampleHolds ==
    (dir = ExampleDir /\ instance_type = Kl) => Suffixes = ExampleSorted

\* C6 as stated: for every set of unit files of the type, find_instances
\* returns the default instance first, then the numbered instances in
\* ascending numeric order, then the named instances in lexical order, and
\* "", "2", "10", "beta", "1" come out as "", "1", "2", "10", "beta".
C6_OrderForEverySuffix ==
    (op = "find_instances" /\ FromUnitFiles) =>
        OrderedAsSpecified /\ ExampleHolds

\* the numbered suffixes are at most 9999 and the named ones begin with a
\* letter
WithinSortKey ==
    \A i \in 1..Len(insts) :
        LET a == suffix_of(insts[i])
        IN  /\ ClassOf(a) = 1 => ValueOf(a) <= 9999
            /\ ClassOf(a) = 2 => (IsUpper(a[1]) \/ IsLower(a[1]))

\* C6 (amended): when every numbered suffix is at most 9999 and every named
\* suffix begins with a letter, find_instances returns the default instance
\* first, then the numbered instances in ascending numeric order, then the
\* named instances in lexical order; "", "2", "10", "beta", "1" come out as
\* "", "1", "2", "10", "beta".
C6_OrderWithinSortKey ==
    (op = "find_instances" /\ FromUnitFiles /\ WithinSortKey) =>
        OrderedAsSpecified /\ ExampleHolds

C6_Witness ==
    /\ op = "find_instances"
    /\ instance_type = Kl
    /\ dir = ExampleDir
    /\ Suffixes = ExampleSorted
    /\ Len(insts) = 5

\* C7: find_instances returns no instance built from a file whose name
\* contains a blacklisted substring, and exactly one instance for every
\* file of the directory that matches the pattern and contains none.
C7_BlacklistExcludes ==
    (op = "find_instances") =>
        /\ \A i \in 1..Len(insts) :
               built_from(insts[i]) \in dir /\ ~Blacklisted(built_from(insts[i]))
        /\ \A f \in dir :
               ((PatternSearch(BaseName, f) \/ WellFormedName(BaseName, f)) /\ ~Blacklisted(f))
                   => Cardinality(BuiltFrom(f)) = 1

C7_Witness ==
    /\ op = "find_instances"
    /\ \E f, g \in dir :
        /\ WellFormedName(BaseName, f)
        /\ Blacklisted(f)
        /\ BuiltFrom(f) = {}
        /\ WellFormedName(BaseName, g)
        /\ \E s \in excluded : HasSubstring(g, [i \in 1..Len(s) |-> s[i] - 32])
        /\ Cardinality(BuiltFrom(g)) = 1

\* C8: a file that contains no blacklisted substring is treated as an
\* instance of the type exactly when its name is the base name, optionally a
\* hyphen and letters or digits, and the literal text ".service".
C8_MatchesExactlyUnitNames ==
    (op = "find_instances") =>
        \A f \in dir :
            ~Blacklisted(f) => (BuiltFrom(f) # {} <=> WellFormedName(BaseName, f))

\* the unit file name derived for an instance of the suffix t
DerivedName(t) == get_service_file_name(instance_type, Instance(t, None)) \o DotService

RoundTripSuffixes == Alnums \cup {<<>>, Str(<<"b", "e", "t", "a">>)}

\* C9 as stated: the suffix extracted from the unit file name derived for a
\* suffix is that suffix, and discovery over a directory that holds the file
\* yields an instance of that suffix.
C9_RoundTripAlwaysDiscovered ==
    (op = "find_instances") =>
        \A t \in RoundTripSuffixes :
            DerivedName(t) \in dir =>
                /\ get_instance_suffix(BaseName, DerivedName(t)) = t
                /\ \E i \in 1..Len(insts) : insts[i] = Instance(t, DerivedName(t))

\* C9 (amended): the suffix extracted from the unit file name derived for a
\* suffix is that suffix, and discovery over a directory that holds the file
\* yields an instance of that suffix provided the file name contains no
\* blacklisted substring.
C9_RoundTrip ==
    (op = "find_instances") =>
        \A t \in RoundTripSuffixes :
            DerivedName(t) \in dir =>
                /\ get_instance_suffix(BaseName, DerivedName(t)) = t
                /\ ~Blacklisted(DerivedName(t)) =>
                       \E i \in 1..Len(insts) : insts[i] = Instance(t, DerivedName(t))

C9_Witness ==
    /\ op = "find_instances"
    /\ instance_type = KlS
    /\ DerivedName(<<>>) \in dir
    /\ DerivedName(Str(<<"1">>)) \in dir
    /\ Suffixes = << <<>>, Str(<<"1">>) >>

====
